---- MODULE Spec2Model ----
(***************************************************************************)
(* Data-acquisition layer of the football page (src/app.py): the           *)
(* competitions cache, the three fetch operations with their static        *)
(* fallbacks, and the home request handler that consumes them.             *)
(*                                                                         *)
(* Strings that the code lowercases, searches or sorts are sequences of    *)
(* Unicode code points, so str.lower(), the `in` substring test and the    *)
(* ordering used by list.sort()/sorted() are computed, not assumed.        *)
(* Python list objects have identity: the cached list, the module-level    *)
(* FALLBACK_COMPETITIONS list and the lists bound to a request's locals    *)
(* may be one and the same object, and list.sort() works in place.         *)
(* Fields of a match that no operation below reads (utcDate, score,        *)
(* crest) are left out of the match records.                               *)
(***************************************************************************)
EXTENDS Integers, Sequences, FiniteSets, TLC

(* ------------------------------ bounds --------------------------------- *)
\* worker threads serving requests in the concurrent specification
NumThreads == 2
\* time.time() when the process starts serving (any value >= CACHE_DURATION)
Epoch == 1000
\* seconds of wall-clock time a behaviour may span
MaxElapsed == 300
\* longest competition list the upstream answers with
MaxCompLen == 2
\* longest match list the upstream answers with
MaxMatches == 12

(* ------------------------- program constants --------------------------- *)
CACHE_DURATION == 300
LIVE_LIMIT == 10
UPCOMING_LIMIT == 5

(* ------------------------------ strings -------------------------------- *)
\* str.lower() on one code point (ASCII and Latin-1 capitals)
LowerChar(c) ==
    IF (c >= 65 /\ c <= 90) \/ (c >= 192 /\ c <= 222 /\ c # 215) THEN c + 32 ELSE c

Lower(s) == [i \in DOMAIN s |-> LowerChar(s[i])]

\* Python's `needle in hay` for strings
Contains(needle, hay) ==
    \E i \in 0..(Len(hay) - Len(needle)) : SubSeq(hay, i + 1, i + Len(needle)) = needle

\* Python's `a < b` for strings: lexicographic by code point
RECURSIVE StrLess(_, _)
StrLess(a, b) ==
    IF b = <<>> THEN FALSE
    ELSE IF a = <<>> THEN TRUE
    ELSE IF Head(a) # Head(b) THEN Head(a) < Head(b)
    ELSE StrLess(Tail(a), Tail(b))

(* --------------------------- static datasets --------------------------- *)
\* The thirteen competition dicts of FALLBACK_COMPETITIONS; a competition dict
\* is referred to by its index in this table.
COMPETITIONS == <<
    \* 1: Premier League / PL / England / TIER_ONE
    [name |-> <<80, 114, 101, 109, 105, 101, 114, 32, 76, 101, 97, 103, 117, 101>>,
     code |-> <<80, 76>>,
     area |-> [name |-> <<69, 110, 103, 108, 97, 110, 100>>],
     plan |-> "TIER_ONE"],
    \* 2: La Liga / PD / Spain / TIER_ONE
    [name |-> <<76, 97, 32, 76, 105, 103, 97>>,
     code |-> <<80, 68>>,
     area |-> [name |-> <<83, 112, 97, 105, 110>>],
     plan |-> "TIER_ONE"],
    \* 3: Bundesliga / BL1 / Germany / TIER_ONE
    [name |-> <<66, 117, 110, 100, 101, 115, 108, 105, 103, 97>>,
     code |-> <<66, 76, 49>>,
     area |-> [name |-> <<71, 101, 114, 109, 97, 110, 121>>],
     plan |-> "TIER_ONE"],
    \* 4: Serie A / SA / Italy / TIER_ONE
    [name |-> <<83, 101, 114, 105, 101, 32, 65>>,
     code |-> <<83, 65>>,
     area |-> [name |-> <<73, 116, 97, 108, 121>>],
     plan |-> "TIER_ONE"],
    \* 5: Ligue 1 / FL1 / France / TIER_ONE
    [name |-> <<76, 105, 103, 117, 101, 32, 49>>,
     code |-> <<70, 76, 49>>,
     area |-> [name |-> <<70, 114, 97, 110, 99, 101>>],
     plan |-> "TIER_ONE"],
    \* 6: Eredivisie / DED / Netherlands / TIER_ONE
    [name |-> <<69, 114, 101, 100, 105, 118, 105, 115, 105, 101>>,
     code |-> <<68, 69, 68>>,
     area |-> [name |-> <<78, 101, 116, 104, 101, 114, 108, 97, 110, 100, 115>>],
     plan |-> "TIER_ONE"],
    \* 7: Primeira Liga / PPL / Portugal / TIER_ONE
    [name |-> <<80, 114, 105, 109, 101, 105, 114, 97, 32, 76, 105, 103, 97>>,
     code |-> <<80, 80, 76>>,
     area |-> [name |-> <<80, 111, 114, 116, 117, 103, 97, 108>>],
     plan |-> "TIER_ONE"],
    \* 8: Championship / ELC / England / TIER_TWO
    [name |-> <<67, 104, 97, 109, 112, 105, 111, 110, 115, 104, 105, 112>>,
     code |-> <<69, 76, 67>>,
     area |-> [name |-> <<69, 110, 103, 108, 97, 110, 100>>],
     plan |-> "TIER_TWO"],
    \* 9: UEFA Champions League / CL / Europe / TIER_ONE
    [name |-> <<85, 69, 70, 65, 32, 67, 104, 97, 109, 112, 105, 111, 110, 115, 32, 76, 101, 97, 103, 117, 101>>,
     code |-> <<67, 76>>,
     area |-> [name |-> <<69, 117, 114, 111, 112, 101>>],
     plan |-> "TIER_ONE"],
    \* 10: FIFA World Cup / WC / World / TIER_ONE
    [name |-> <<70, 73, 70, 65, 32, 87, 111, 114, 108, 100, 32, 67, 117, 112>>,
     code |-> <<87, 67>>,
     area |-> [name |-> <<87, 111, 114, 108, 100>>],
     plan |-> "TIER_ONE"],
    \* 11: Campeonato Brasileiro Serie (e-acute, 233) A / BSA / Brazil / TIER_ONE
    [name |-> <<67, 97, 109, 112, 101, 111, 110, 97, 116, 111, 32, 66, 114, 97, 115, 105, 108, 101, 105, 114, 111, 32, 83, 233, 114, 105, 101, 32, 65>>,
     code |-> <<66, 83, 65>>,
     area |-> [name |-> <<66, 114, 97, 122, 105, 108>>],
     plan |-> "TIER_ONE"],
    \* 12: Copa Libertadores / CLI / South America / TIER_ONE
    [name |-> <<67, 111, 112, 97, 32, 76, 105, 98, 101, 114, 116, 97, 100, 111, 114, 101, 115>>,
     code |-> <<67, 76, 73>>,
     area |-> [name |-> <<83, 111, 117, 116, 104, 32, 65, 109, 101, 114, 105, 99, 97>>],
     plan |-> "TIER_ONE"],
    \* 13: European Championship / EC / Europe / TIER_ONE
    [name |-> <<69, 117, 114, 111, 112, 101, 97, 110, 32, 67, 104, 97, 109, 112, 105, 111, 110, 115, 104, 105, 112>>,
     code |-> <<69, 67>>,
     area |-> [name |-> <<69, 117, 114, 111, 112, 101>>],
     plan |-> "TIER_ONE"]
>>

CompIds == DOMAIN COMPETITIONS

\* the list literal bound to FALLBACK_COMPETITIONS at import time
FALLBACK_COMPETITIONS_LITERAL == [i \in 1..Len(COMPETITIONS) |-> i]

FALLBACK_MATCHES == <<
    [homeTeam |-> "Manchester United", awayTeam |-> "Liverpool",
     status |-> "SCHEDULED", competition |-> "Premier League"],
    [homeTeam |-> "Barcelona", awayTeam |-> "Real Madrid",
     status |-> "IN_PLAY", competition |-> "La Liga"],
    [homeTeam |-> "Bayern Munich", awayTeam |-> "Borussia Dortmund",
     status |-> "FINISHED", competition |-> "Bundesliga"]
>>

\* the list `upcoming` built at the top of get_upcoming_matches
UPCOMING_STATIC == <<
    [homeTeam |-> "Chelsea", awayTeam |-> "Arsenal",
     status |-> "SCHEDULED", competition |-> "Premier League"],
    [homeTeam |-> "AC Milan", awayTeam |-> "Inter Milan",
     status |-> "SCHEDULED", competition |-> "Serie A"],
    [homeTeam |-> "Paris Saint-Germain", awayTeam |-> "Marseille",
     status |-> "SCHEDULED", competition |-> "Ligue 1"]
>>

(* ------------------------------ upstream ------------------------------- *)
\* What one requests.get(...) followed by response.json() can come to:
\* an exception (connection error, timeout, body that does not parse), a
\* non-200 status, or status 200 with the list found under the body's key.
RaisesException == [raises |-> TRUE, status_code |-> 0, json |-> <<>>]
HttpError == [raises |-> FALSE, status_code |-> 429, json |-> <<>>]
Ok(list) == [raises |-> FALSE, status_code |-> 200, json |-> list]

Take(s, n) == SubSeq(s, 1, IF Len(s) < n THEN Len(s) ELSE n)

\* competition lists the upstream may answer with
REMOTE_A == <<1, 2, 3, 4, 5>>
REMOTE_B == <<9, 4, 8, 12, 6>>
CompLists == {<<>>, Take(REMOTE_A, MaxCompLen), Take(REMOTE_B, MaxCompLen)}
CompResponses == {RaisesException, HttpError} \cup {Ok(l) : l \in CompLists}

TEAMS == <<"Arsenal", "Chelsea", "Liverpool", "Tottenham", "Juventus">>
STATUSES == <<"SCHEDULED", "IN_PLAY", "PAUSED", "FINISHED", "POSTPONED", "CANCELLED", "TIMED">>
RemoteMatch(i) ==
    [homeTeam |-> TEAMS[((i - 1) % Len(TEAMS)) + 1],
     awayTeam |-> TEAMS[(i % Len(TEAMS)) + 1],
     status |-> STATUSES[((i - 1) % Len(STATUSES)) + 1],
     competition |-> "Premier League"]
RemoteMatches(n) == [i \in 1..n |-> RemoteMatch(i)]
MatchResponses ==
    {RaisesException, HttpError} \cup {Ok(RemoteMatches(n)) : n \in 0..MaxMatches}

(* --------------------------- pure operations --------------------------- *)
\* truth value of the environment variable read into API_KEY
HasKey(key) == key # "None"

\* get_live_matches as it would be without the `if not API_KEY` early return
GetLiveMatchesNoKeyCheck(key, resp) ==
    IF resp.raises THEN [data |-> FALLBACK_MATCHES, fallback |-> TRUE, calls |-> 1]
    ELSE IF resp.status_code = 200
         THEN [data |-> Take(resp.json, LIVE_LIMIT), fallback |-> FALSE, calls |-> 1]
    ELSE [data |-> FALLBACK_MATCHES, fallback |-> TRUE, calls |-> 1]

\* get_live_matches as it would be without the [:10] slice
GetLiveMatchesUnlimited(key, resp) ==
    IF ~HasKey(key) THEN [data |-> FALLBACK_MATCHES, fallback |-> TRUE, calls |-> 0]
    ELSE IF resp.raises THEN [data |-> FALLBACK_MATCHES, fallback |-> TRUE, calls |-> 1]
    ELSE IF resp.status_code = 200
         THEN [data |-> resp.json, fallback |-> FALSE, calls |-> 1]
    ELSE [data |-> FALLBACK_MATCHES, fallback |-> TRUE, calls |-> 1]

\* get_live_matches; `calls` counts the requests.get invocations
GetLiveMatches(key, resp) ==
    IF ~HasKey(key) THEN [data |-> FALLBACK_MATCHES, fallback |-> TRUE, calls |-> 0]
    ELSE IF resp.raises THEN [data |-> FALLBACK_MATCHES, fallback |-> TRUE, calls |-> 1]
    ELSE IF resp.status_code = 200
         THEN [data |-> Take(resp.json, LIVE_LIMIT), fallback |-> FALSE, calls |-> 1]
    ELSE [data |-> FALLBACK_MATCHES, fallback |-> TRUE, calls |-> 1]

\* get_upcoming_matches as it would be without the `if real_matches` test
GetUpcomingMatchesNoEmptyCheck(key, resp) ==
    IF ~HasKey(key) THEN [data |-> UPCOMING_STATIC, fallback |-> TRUE, calls |-> 0]
    ELSE IF resp.raises THEN [data |-> UPCOMING_STATIC, fallback |-> TRUE, calls |-> 1]
    ELSE IF resp.status_code = 200
         THEN [data |-> Take(resp.json, UPCOMING_LIMIT), fallback |-> FALSE, calls |-> 1]
    ELSE [data |-> UPCOMING_STATIC, fallback |-> TRUE, calls |-> 1]

\* get_upcoming_matches
GetUpcomingMatches(key, resp) ==
    IF ~HasKey(key) THEN [data |-> UPCOMING_STATIC, fallback |-> TRUE, calls |-> 0]
    ELSE IF resp.raises THEN [data |-> UPCOMING_STATIC, fallback |-> TRUE, calls |-> 1]
    ELSE IF resp.status_code = 200 /\ Len(resp.json) > 0
         THEN [data |-> Take(resp.json, UPCOMING_LIMIT), fallback |-> FALSE, calls |-> 1]
    ELSE [data |-> UPCOMING_STATIC, fallback |-> TRUE, calls |-> 1]

get_match_status_display(status) ==
    CASE status = "SCHEDULED" -> " Scheduled"
      [] status = "IN_PLAY" -> " LIVE"
      [] status = "PAUSED" -> " Half Time"
      [] status = "FINISHED" -> " Finished"
      [] status = "POSTPONED" -> " Postponed"
      [] status = "CANCELLED" -> " Cancelled"
      [] OTHER -> status

ProcessLive(matches) ==
    [i \in DOMAIN matches |->
        [homeTeam |-> matches[i].homeTeam,
         awayTeam |-> matches[i].awayTeam,
         status |-> get_match_status_display(matches[i].status),
         competition |-> matches[i].competition,
         is_live |-> (matches[i].status = "IN_PLAY")]]

ProcessUpcoming(matches) ==
    [i \in DOMAIN matches |->
        [homeTeam |-> matches[i].homeTeam,
         awayTeam |-> matches[i].awayTeam,
         competition |-> matches[i].competition]]

\* the search filter of home: search_query is already lowercased
SearchFilter(items, search_query) ==
    SelectSeq(items, LAMBDA c :
        Contains(search_query, Lower(COMPETITIONS[c].name))
        \/ Contains(search_query, Lower(COMPETITIONS[c].code)))

CountryFilter(items, filter_country) ==
    SelectSeq(items, LAMBDA c :
        Lower(COMPETITIONS[c].area.name) = Lower(filter_country))

SortKey(c, sort_by) ==
    IF sort_by = "name" THEN COMPETITIONS[c].name ELSE COMPETITIONS[c].area.name

\* x put behind every element whose key is not greater: insertion keeps
\* equal keys in their original order, as the stable list.sort() does
RECURSIVE Insert(_, _, _)
Insert(sorted, x, sort_by) ==
    IF sorted = <<>> THEN <<x>>
    ELSE IF StrLess(SortKey(x, sort_by), SortKey(Head(sorted), sort_by))
         THEN <<x>> \o sorted
    ELSE <<Head(sorted)>> \o Insert(Tail(sorted), x, sort_by)

RECURSIVE SortedBy(_, _)
SortedBy(items, sort_by) ==
    IF items = <<>> THEN <<>>
    ELSE Insert(SortedBy(SubSeq(items, 1, Len(items) - 1), sort_by),
                items[Len(items)], sort_by)

\* sorted(list(set(...))) over strings
RECURSIVE SortedSet(_)
SortedSet(S) ==
    IF S = {} THEN <<>>
    ELSE LET m == CHOOSE x \in S : \A y \in S \ {x} : StrLess(x, y)
         IN <<m>> \o SortedSet(S \ {m})

\* the countries list of home: distinct non-empty area names, ascending
Countries(items) ==
    SortedSet({COMPETITIONS[items[i]].area.name : i \in DOMAIN items} \ {<<>>})

STATUS_MESSAGE == " Using sample data - Live API data will load when available."

(* -------------------------------- state -------------------------------- *)
VARIABLES
    API_KEY,      \* os.environ.get("FOOTBALL_API_KEY"), read once at import
    api_cache,    \* [data, timestamp]; data is a list object or NoneObj
    heap,         \* the list objects: heap[FallbackObj] is FALLBACK_COMPETITIONS
    now,          \* what time.time() returns
    req,          \* per worker thread: the frame of the home request it serves
    last_ok,      \* history: the latest get_competitions_data call that got a 200
    probe         \* the latest direct call of each match operation and its result

vars == <<API_KEY, api_cache, heap, now, req, last_ok, probe>>

Threads == 1..NumThreads
HeapSize == 2 * NumThreads + 1
NoneObj == -1
PrivateObj == -2
FallbackObj == 0

\* a reference held by a local variable: a shared list object, or a list
\* built by the request itself (which no other request can reach)
NoneRef == [obj |-> NoneObj, items |-> <<>>]
ObjRef(id) == [obj |-> id, items |-> <<>>]
PrivateRef(items) == [obj |-> PrivateObj, items |-> items]

\* CPython keeps a list empty for the duration of list.sort() on it
Visible(h, id) == IF h[id].sorting THEN <<>> ELSE h[id].items

\* reading the elements of the list a local refers to
Items(h, ref) ==
    IF ref.obj >= 0 THEN Visible(h, ref.obj)
    ELSE ref.items

\* bool(api_cache["data"])
Truthy(h, data) == data # NoneObj /\ Len(Visible(h, data)) > 0

\* (current_time - api_cache["timestamp"]) < CACHE_DURATION
CacheFresh(current_time, timestamp) == current_time - timestamp < CACHE_DURATION

\* fetched_at (history): current_time of the call that built the list
FreeList == [items |-> <<>>, sorting |-> FALSE, fetched_at |-> 0]

Referenced(cache, rq) ==
    {cache.data, FallbackObj}
    \cup {rq[t].competitions.obj : t \in Threads}
    \cup {rq[t].all_competitions.obj : t \in Threads}
    \cup {rq[t].fetched : t \in Threads}

\* list objects nothing refers to any more are reclaimed
Collect(h, cache, rq) ==
    [id \in DOMAIN h |-> IF id \in Referenced(cache, rq) THEN h[id] ELSE FreeList]

NewObj(cache, rq) ==
    CHOOSE id \in 1..HeapSize :
        /\ id \notin Referenced(cache, rq)
        /\ \A other \in 1..(id - 1) : other \in Referenced(cache, rq)

NoView ==
    [rendered |-> FALSE, competitions |-> <<>>, countries |-> <<>>,
     status_message |-> "None", live_matches |-> <<>>, upcoming_matches |-> <<>>]

NoReturn ==
    [returned |-> FALSE, fallback |-> FALSE, remote_call |-> FALSE,
     obj |-> NoneObj, items |-> <<>>, full |-> <<>>, response |-> RaisesException,
     cache_before |-> [data |-> NoneObj, timestamp |-> 0], list_before |-> <<>>,
     cache_after |-> [data |-> NoneObj, timestamp |-> 0], list_after |-> <<>>]

IdleFrame ==
    [pc |-> "idle",
     search_query |-> <<>>, sort_by |-> "name", filter_country |-> <<>>,
     call |-> 0, current_time |-> 0, fetched |-> NoneObj,
     entry |-> [cache |-> [data |-> NoneObj, timestamp |-> 0], list |-> <<>>],
     competitions |-> NoneRef, using_fallback |-> FALSE,
     all_competitions |-> NoneRef,
     live_matches |-> <<>>, matches_fallback |-> FALSE,
     upcoming_matches |-> <<>>, upcoming_fallback |-> FALSE,
     processed_matches |-> <<>>, processed_upcoming |-> <<>>,
     countries |-> <<>>,
     \* history of this request
     live_response |-> RaisesException, upcoming_response |-> RaisesException,
     competition_calls |-> 0, live_calls |-> 0, upcoming_calls |-> 0,
     response |-> RaisesException,
     ret1 |-> NoReturn, ret2 |-> NoReturn,
     view |-> NoView]

NoCall ==
    [called |-> FALSE, response |-> RaisesException,
     data |-> <<>>, fallback |-> FALSE, calls |-> 0]

Init ==
    /\ API_KEY \in {"None", "token"}
    /\ api_cache = [data |-> NoneObj, timestamp |-> 0]
    /\ heap = [id \in 0..HeapSize |->
                 IF id = FallbackObj
                 THEN [items |-> FALLBACK_COMPETITIONS_LITERAL, sorting |-> FALSE,
                       fetched_at |-> 0]
                 ELSE FreeList]
    /\ now = Epoch
    /\ req = [t \in Threads |-> IdleFrame]
    /\ last_ok = [valid |-> FALSE, time |-> 0, items |-> <<>>]
    /\ probe = [live |-> NoCall, upcoming |-> NoCall]


(* ---------------------------- request inputs --------------------------- *)
Query(search, country, sort) == [search |-> search, country |-> country, sort |-> sort]
S_PL == <<80, 76>>                            \* "PL"
S_ENGLAND == <<69, 78, 71, 76, 65, 78, 68>>   \* "ENGLAND"
\* the query strings of the requests: /, /?sort=country, /?sort=code,
\* /?search=PL, /?country=ENGLAND&sort=country
Queries ==
    {Query(<<>>, <<>>, "name"), Query(<<>>, <<>>, "country"), Query(<<>>, <<>>, "code"),
     Query(S_PL, <<>>, "name"), Query(<<>>, S_ENGLAND, "country")}

\* what the matches endpoint answers while a page is being served
PageMatchResponses == {RaisesException, HttpError, Ok(RemoteMatches(MaxMatches))}

(* ------------------------------- actions ------------------------------- *)
\* the three writes every step ends with; unreferenced lists are reclaimed
Commit(h, cache, rq) ==
    /\ api_cache' = cache
    /\ req' = rq
    /\ heap' = Collect(h, cache, rq)

\* time passes; the clock is read at line 68 only, so it is enough to let it
\* advance when some request is about to read it
Tick(seconds) ==
    /\ \E t \in Threads : req[t].pc = "L68"
    /\ \E d \in seconds :
          /\ now + d <= Epoch + MaxElapsed
          /\ now' = now + d
    /\ UNCHANGED <<API_KEY, api_cache, heap, req, last_ok, probe>>

\* home, lines 193-201: read the query parameters, call get_competitions_data
Start(t, queries, from) ==
    /\ req[t].pc \in from
    /\ \E q \in queries :
          Commit(heap, api_cache,
                 [req EXCEPT ![t] = [IdleFrame EXCEPT
                     !.pc = "L68", !.call = 1,
                     !.search_query = Lower(q.search), !.sort_by = q.sort,
                     !.filter_country = q.country]])
    /\ UNCHANGED <<API_KEY, now, last_ok, probe>>

\* the frame after get_competitions_data returns (data, fallback) to home
Return(h, cache, fr, data, fallback, remote, response) ==
    LET r == [returned |-> TRUE, fallback |-> fallback, remote_call |-> remote,
              obj |-> data.obj, items |-> Items(h, data), full |-> h[data.obj].items,
              response |-> response,
              cache_before |-> fr.entry.cache, list_before |-> fr.entry.list,
              cache_after |-> cache,
              list_after |-> IF cache.data = NoneObj THEN <<>> ELSE h[cache.data].items]
    IN IF fr.call = 1
       THEN [fr EXCEPT !.competitions = data, !.using_fallback = fallback,
                       !.fetched = NoneObj, !.ret1 = r, !.pc = "L204"]
       ELSE [fr EXCEPT !.all_competitions = data,
                       !.fetched = NoneObj, !.ret2 = r, !.pc = "L255"]

\* get_competitions_data, line 68: current_time = time.time()
L68(t) ==
    /\ req[t].pc = "L68"
    /\ Commit(heap, api_cache,
              [req EXCEPT ![t] = [@ EXCEPT
                  !.pc = "L71", !.current_time = now,
                  !.entry = [cache |-> api_cache,
                             list |-> IF api_cache.data = NoneObj THEN <<>>
                                      ELSE heap[api_cache.data].items]]])
    /\ UNCHANGED <<API_KEY, now, last_ok, probe>>

\* line 71, left operand of `and`: api_cache["data"]
L71(t) ==
    /\ req[t].pc = "L71"
    /\ Commit(heap, api_cache,
              [req EXCEPT ![t].pc =
                  IF Truthy(heap, api_cache.data) THEN "L71b" ELSE "L76"])
    /\ UNCHANGED <<API_KEY, now, last_ok, probe>>

\* line 71, right operand: the age test on api_cache["timestamp"]
L71b(t) ==
    /\ req[t].pc = "L71b"
    /\ Commit(heap, api_cache,
              [req EXCEPT ![t].pc =
                  IF CacheFresh(req[t].current_time, api_cache.timestamp)
                  THEN "L72" ELSE "L76"])
    /\ UNCHANGED <<API_KEY, now, last_ok, probe>>

\* line 72: return api_cache["data"], False
L72(t) ==
    /\ req[t].pc = "L72"
    /\ Commit(heap, api_cache,
              [req EXCEPT ![t] =
                  Return(heap, api_cache, @, ObjRef(api_cache.data), FALSE, FALSE,
                         RaisesException)])
    /\ UNCHANGED <<API_KEY, now, last_ok, probe>>

\* lines 84-89 as they would be if a failure also dropped the cached entry
OnFailureInvalidates(h, cache, fr, resp) ==
    [heap |-> h, cache |-> [data |-> NoneObj, timestamp |-> 0],
     frame |-> Return(h, [data |-> NoneObj, timestamp |-> 0], fr,
                      ObjRef(FallbackObj), TRUE, TRUE, resp)]

\* what the except clause and the else branch return (lines 84-89)
OnFailure(h, cache, fr, resp) ==
    [heap |-> h, cache |-> cache,
     frame |-> Return(h, cache, fr, ObjRef(FallbackObj), TRUE, TRUE, resp)]

\* lines 78-80: a 200 response; `competitions` is bound to a new list
OnSuccess(h, cache, fr, resp, id) ==
    [heap |-> [h EXCEPT ![id] = [items |-> resp.json, sorting |-> FALSE,
                                 fetched_at |-> fr.current_time]],
     cache |-> cache,
     frame |-> [fr EXCEPT !.fetched = id, !.response = resp, !.pc = "L81"]]

\* lines 74-80 and 84-89: the remote call and what becomes of its response
L76(t, responses) ==
    /\ req[t].pc = "L76"
    /\ \E resp \in responses :
          LET fr == [req[t] EXCEPT !.competition_calls = @ + 1]
              out == IF resp.raises \/ resp.status_code # 200
                     THEN OnFailure(heap, api_cache, fr, resp)
                     ELSE OnSuccess(heap, api_cache, fr, resp, NewObj(api_cache, req))
          IN /\ Commit(out.heap, out.cache, [req EXCEPT ![t] = out.frame])
             /\ last_ok' = IF resp.raises \/ resp.status_code # 200 THEN last_ok
                           ELSE [valid |-> TRUE, time |-> req[t].current_time,
                                 items |-> resp.json]
    /\ UNCHANGED <<API_KEY, now, probe>>

\* line 81: api_cache["data"] = competitions
L81(t) ==
    /\ req[t].pc = "L81"
    /\ Commit(heap, [api_cache EXCEPT !.data = req[t].fetched],
              [req EXCEPT ![t].pc = "L82"])
    /\ UNCHANGED <<API_KEY, now, last_ok, probe>>

\* line 82: api_cache["timestamp"] = current_time
L82(t) ==
    /\ req[t].pc = "L82"
    /\ Commit(heap, [api_cache EXCEPT !.timestamp = req[t].current_time],
              [req EXCEPT ![t].pc = "L83"])
    /\ UNCHANGED <<API_KEY, now, last_ok, probe>>

\* line 83: return competitions, False
L83(t) ==
    /\ req[t].pc = "L83"
    /\ Commit(heap, api_cache,
              [req EXCEPT ![t] =
                  Return(heap, api_cache, @, ObjRef(req[t].fetched), FALSE, TRUE,
                         req[t].response)])
    /\ UNCHANGED <<API_KEY, now, last_ok, probe>>

\* home, lines 204-234: get_live_matches(), get_upcoming_matches() and the
\* display records of their matches; nothing here reads or writes shared state
L204(t, responses) ==
    /\ req[t].pc = "L204"
    /\ \E live \in (IF HasKey(API_KEY) THEN responses ELSE {RaisesException}),
          upcoming \in (IF HasKey(API_KEY) THEN responses ELSE {RaisesException}) :
          LET l == GetLiveMatches(API_KEY, live)
              u == GetUpcomingMatches(API_KEY, upcoming)
          IN Commit(heap, api_cache,
                    [req EXCEPT ![t] = [@ EXCEPT
                        !.live_matches = l.data, !.matches_fallback = l.fallback,
                        !.live_calls = @ + l.calls, !.live_response = live,
                        !.upcoming_matches = u.data, !.upcoming_fallback = u.fallback,
                        !.upcoming_calls = @ + u.calls, !.upcoming_response = upcoming,
                        !.processed_matches = ProcessLive(l.data),
                        !.processed_upcoming = ProcessUpcoming(u.data),
                        !.pc = "L237"]])
    /\ UNCHANGED <<API_KEY, now, last_ok, probe>>

\* home, lines 237-245: the two filters, each binding `competitions` to a
\* new list when its parameter is given
Filtered(h, fr) ==
    LET a == IF fr.search_query # <<>>
             THEN PrivateRef(SearchFilter(Items(h, fr.competitions), fr.search_query))
             ELSE fr.competitions
    IN IF fr.filter_country # <<>>
       THEN PrivateRef(CountryFilter(Items(h, a), fr.filter_country))
       ELSE a

L237(t) ==
    /\ req[t].pc = "L237"
    /\ Commit(heap, api_cache,
              [req EXCEPT ![t] = [@ EXCEPT
                  !.competitions = Filtered(heap, req[t]), !.pc = "L248"]])
    /\ UNCHANGED <<API_KEY, now, last_ok, probe>>

\* the list that competitions.sort(key=...) leaves behind
SortInPlace(items, sort_by) == SortedBy(items, sort_by)

\* home, line 254: get_competitions_data is called a second time
SecondCall(fr) == [fr EXCEPT !.pc = "L68", !.call = 2]

\* home, lines 248-251: competitions.sort(...) starts. A list that only this
\* request can reach is sorted at once; a shared list object stays empty to
\* every reader until the sort is over.
L248(t) ==
    /\ req[t].pc = "L248"
    /\ LET fr == req[t]
           c == fr.competitions
       IN IF fr.sort_by \notin {"name", "country"}
          THEN Commit(heap, api_cache, [req EXCEPT ![t] = SecondCall(@)])
          ELSE IF c.obj = PrivateObj
          THEN Commit(heap, api_cache,
                      [req EXCEPT ![t] = [@ EXCEPT
                          !.competitions = PrivateRef(SortInPlace(c.items, fr.sort_by)),
                          !.pc = "L68", !.call = 2]])
          ELSE IF Len(Visible(heap, c.obj)) = 0
          THEN Commit(heap, api_cache, [req EXCEPT ![t] = SecondCall(@)])
          ELSE Commit([heap EXCEPT ![c.obj].sorting = TRUE], api_cache,
                      [req EXCEPT ![t].pc = "L249"])
    /\ UNCHANGED <<API_KEY, now, last_ok, probe>>

\* list.sort() on a shared list returns: the list holds its elements again
L249(t) ==
    /\ req[t].pc = "L249"
    /\ LET id == req[t].competitions.obj
       IN Commit([heap EXCEPT ![id] =
                      [@ EXCEPT !.items = SortInPlace(heap[id].items, req[t].sort_by),
                                !.sorting = FALSE]],
                 api_cache, [req EXCEPT ![t] = SecondCall(@)])
    /\ UNCHANGED <<API_KEY, now, last_ok, probe>>

\* home, lines 255-257
L255(t) ==
    /\ req[t].pc = "L255"
    /\ Commit(heap, api_cache,
              [req EXCEPT ![t] = [@ EXCEPT
                  !.countries = Countries(Items(heap, req[t].all_competitions)),
                  !.pc = "L260"]])
    /\ UNCHANGED <<API_KEY, now, last_ok, probe>>

\* the context render_template receives (lines 264-272)
TemplateContext(h, fr) ==
    [rendered |-> TRUE,
     competitions |-> Items(h, fr.competitions),
     countries |-> fr.countries,
     status_message |-> IF fr.using_fallback THEN STATUS_MESSAGE ELSE "None",
     live_matches |-> fr.processed_matches,
     upcoming_matches |-> fr.processed_upcoming]

\* home, lines 260-272: the status message and the rendering; the locals die
L260(t) ==
    /\ req[t].pc = "L260"
    /\ Commit(heap, api_cache,
              [req EXCEPT ![t] = [@ EXCEPT
                  !.view = TemplateContext(heap, req[t]),
                  !.competitions = NoneRef, !.all_competitions = NoneRef,
                  !.pc = "done"]])
    /\ UNCHANGED <<API_KEY, now, last_ok, probe>>

\* the statements of get_competitions_data
Fetch(t, responses) ==
    \/ L68(t) \/ L71(t) \/ L71b(t) \/ L72(t)
    \/ L76(t, responses) \/ L81(t) \/ L82(t) \/ L83(t)

\* the statements of home after its first line
Body(t, responses) ==
    \/ L204(t, responses) \/ L237(t)
    \/ L248(t) \/ L249(t) \/ L255(t) \/ L260(t)

\* requests served one after another by a single worker
Next ==
    \/ Tick({CACHE_DURATION, CACHE_DURATION - 1})
    \/ Start(1, Queries, {"idle", "done"})
    \/ Fetch(1, CompResponses)
    \/ Body(1, PageMatchResponses)
Spec == Init /\ [][Next]_vars

(* ------------------------- concurrent requests ------------------------- *)
\* NumThreads workers, each serving one request, over the one shared cache;
\* a step of a worker is one statement (one read or write of shared state)
ConcQueries == {Query(<<>>, <<>>, "name")}
ConcCompResponses == {HttpError, Ok(Take(REMOTE_A, MaxCompLen))}
ConcInit == Init /\ API_KEY = "None"
ConcNext ==
    \/ Tick({CACHE_DURATION})
    \/ \E t \in Threads :
          \/ Start(t, ConcQueries, {"idle"})
          \/ Fetch(t, ConcCompResponses)
          \/ Body(t, {HttpError})
ConcSpec == ConcInit /\ [][ConcNext]_vars

(* ------------------- the match operations on their own ----------------- *)
CallLive ==
    /\ \E resp \in MatchResponses :
          LET r == GetLiveMatches(API_KEY, resp)
          IN probe' = [probe EXCEPT !.live =
                 [called |-> TRUE, response |-> resp, data |-> r.data,
                  fallback |-> r.fallback, calls |-> r.calls]]
    /\ UNCHANGED <<API_KEY, api_cache, heap, now, req, last_ok>>

CallUpcoming ==
    /\ \E resp \in MatchResponses :
          LET r == GetUpcomingMatches(API_KEY, resp)
          IN probe' = [probe EXCEPT !.upcoming =
                 [called |-> TRUE, response |-> resp, data |-> r.data,
                  fallback |-> r.fallback, calls |-> r.calls]]
    /\ UNCHANGED <<API_KEY, api_cache, heap, now, req, last_ok>>

MatchNext == CallLive \/ CallUpcoming
MatchSpec == Init /\ [][MatchNext]_vars

(* ------------------------------ properties ----------------------------- *)
Failed(resp) == resp.raises \/ resp.status_code # 200

Count(s, x) == Cardinality({i \in DOMAIN s : s[i] = x})
\* the same records, in whatever order
SameRecords(a, b) ==
    /\ Len(a) = Len(b)
    /\ \A i \in DOMAIN a : Count(a, a[i]) = Count(b, a[i])

\* the first n elements of list, in order (all of them when there are fewer)
IsPrefixOfLength(data, list, n) ==
    /\ Len(data) = (IF Len(list) < n THEN Len(list) ELSE n)
    /\ \A i \in DOMAIN data : data[i] = list[i]

\* both match operations of the request have returned
MatchesFetched(fr) == fr.call = 2 \/ fr.pc \in {"L237", "L248", "L249"}

Returns(fr) == {r \in {fr.ret1, fr.ret2} : r.returned}

\* C1: after a get_competitions_data call that got a 200 response (whatever
\* list it carried), every call made less than CACHE_DURATION seconds later
\* issues no remote call and returns that same data as a cache hit, and a
\* cache hit is served only inside that window (the first call made
\* CACHE_DURATION seconds or more after the fetch goes to the remote again).
C1_CacheWindow ==
    \A t \in Threads :
        LET fr == req[t]
            inWindow == last_ok.valid /\ fr.current_time - last_ok.time < CACHE_DURATION
        IN /\ fr.pc = "L76" => ~inWindow
           /\ fr.pc = "L72" => inWindow /\ Visible(heap, api_cache.data) = last_ok.items

\* C2: a fetch operation whose remote call raised or answered non-200 returns
\* (it does not raise) the static fallback records with fallback = True, and
\* get_competitions_data then leaves api_cache["data"], the cached list and
\* api_cache["timestamp"] as they were when the call began. (The records are
\* compared as a collection: the order of FALLBACK_COMPETITIONS is C9's matter.)
C2_FailureFallsBack ==
    \A t \in Threads :
        LET fr == req[t]
        IN /\ \A r \in Returns(fr) :
                 (r.remote_call /\ Failed(r.response)) =>
                     /\ r.fallback
                     /\ r.obj = FallbackObj
                     /\ SameRecords(r.items, FALLBACK_COMPETITIONS_LITERAL)
                     /\ r.cache_after = r.cache_before
                     /\ r.list_after = r.list_before
           /\ (MatchesFetched(fr) /\ HasKey(API_KEY) /\ Failed(fr.live_response)) =>
                 fr.matches_fallback /\ fr.live_matches = FALLBACK_MATCHES
           /\ (MatchesFetched(fr) /\ HasKey(API_KEY) /\ Failed(fr.upcoming_response)) =>
                 fr.upcoming_fallback /\ fr.upcoming_matches = UPCOMING_STATIC

\* a failed competitions call over a populated (stale) cache, and both match
\* calls of the same request failing
C2_Witness ==
    \E t \in Threads :
        /\ req[t].ret1.returned /\ req[t].ret1.remote_call
        /\ Failed(req[t].ret1.response)
        /\ req[t].ret1.cache_before.data # NoneObj
        /\ Len(req[t].ret1.list_before) > 0
        /\ MatchesFetched(req[t]) /\ HasKey(API_KEY)
        /\ req[t].live_response = HttpError
        /\ req[t].upcoming_response = RaisesException

\* C3: the values handed to the template carry a fallback indication exactly
\* when one of the three operations returned fallback = True.
C3_FlagReachesTemplate ==
    \A t \in Threads :
        req[t].view.rendered =>
            ((req[t].using_fallback \/ req[t].matches_fallback \/ req[t].upcoming_fallback)
                <=> req[t].view.status_message # "None")

\* C4 as stated: without a credential every home request renders the 13
\* fallback competitions, the 3 fallback matches and the notice, and makes no
\* remote call for matches.
C4_NoCredentialAlwaysFallback ==
    \A t \in Threads :
        (req[t].view.rendered /\ ~HasKey(API_KEY)) =>
            /\ SameRecords(req[t].view.competitions, FALLBACK_COMPETITIONS_LITERAL)
            /\ req[t].view.live_matches = ProcessLive(FALLBACK_MATCHES)
            /\ req[t].view.status_message = STATUS_MESSAGE
            /\ req[t].live_calls = 0 /\ req[t].upcoming_calls = 0

\* the fallback competitions a request with these parameters shows
ExpectedFallbackSelection(fr) ==
    LET a == IF fr.search_query # <<>>
             THEN SearchFilter(FALLBACK_COMPETITIONS_LITERAL, fr.search_query)
             ELSE FALLBACK_COMPETITIONS_LITERAL
    IN IF fr.filter_country # <<>> THEN CountryFilter(a, fr.filter_country) ELSE a

\* C4 (amended): without a credential every home request makes no remote call
\* for matches and renders the 3 static fallback matches; when its competitions
\* fetch fails (non-200 or exception) it also renders the fallback notice and
\* the static fallback competitions that pass its search and country filters,
\* all 13 of them when no filter is given.
C4_NoCredentialAmended ==
    \A t \in Threads :
        LET fr == req[t]
        IN (fr.view.rendered /\ ~HasKey(API_KEY)) =>
            /\ fr.live_calls = 0 /\ fr.upcoming_calls = 0
            /\ fr.view.live_matches = ProcessLive(FALLBACK_MATCHES)
            /\ Len(fr.view.live_matches) = 3
            /\ (fr.ret1.remote_call /\ Failed(fr.ret1.response)) =>
                  /\ fr.view.status_message = STATUS_MESSAGE
                  /\ SameRecords(fr.view.competitions, ExpectedFallbackSelection(fr))
                  /\ (fr.search_query = <<>> /\ fr.filter_country = <<>>)
                        => Len(fr.view.competitions) = 13

C4_Witness ==
    \E t \in Threads :
        /\ req[t].view.rendered /\ ~HasKey(API_KEY)
        /\ req[t].ret1.remote_call /\ Failed(req[t].ret1.response)
        /\ req[t].search_query = <<>> /\ req[t].filter_country = <<>>
        /\ Len(req[t].view.competitions) = 13

\* C5: whenever no fetch is between its two cache writes, the cache holds
\* either nothing (no data, timestamp 0) or a list together with the
\* current_time of the very fetch that built that list.
C5_CacheWrittenTogether ==
    (\A t \in Threads : req[t].pc # "L82") =>
        IF api_cache.data = NoneObj THEN api_cache.timestamp = 0
        ELSE heap[api_cache.data].fetched_at = api_cache.timestamp

\* C6: get_upcoming_matches returns the first UPCOMING_LIMIT fixtures of a
\* non-empty 200 response, in order, with fallback = False when a credential
\* is configured, and the three static fixtures with fallback = True otherwise.
C6_UpcomingMatches ==
    LET u == probe.upcoming
    IN u.called =>
        IF HasKey(API_KEY) /\ ~Failed(u.response) /\ Len(u.response.json) > 0
        THEN IsPrefixOfLength(u.data, u.response.json, 5) /\ ~u.fallback
        ELSE u.data = UPCOMING_STATIC /\ Len(u.data) = 3 /\ u.fallback

C6_Witness ==
    /\ probe.upcoming.called /\ HasKey(API_KEY)
    /\ ~Failed(probe.upcoming.response)
    /\ Len(probe.upcoming.response.json) > 5
    /\ Len(probe.upcoming.data) = 5

\* C7: get_live_matches without a credential returns the static matches with
\* fallback = True and makes no remote call; with a credential every call makes
\* exactly one remote call, whatever was called before, and a 200 response
\* yields its first LIVE_LIMIT matches, in order, with fallback = False.
C7_LiveMatches ==
    LET l == probe.live
    IN l.called =>
        IF ~HasKey(API_KEY)
        THEN l.data = FALLBACK_MATCHES /\ l.fallback /\ l.calls = 0
        ELSE /\ l.calls = 1
             /\ ~Failed(l.response) =>
                   IsPrefixOfLength(l.data, l.response.json, 10) /\ ~l.fallback

C7_Witness ==
    /\ probe.live.called /\ HasKey(API_KEY)
    /\ ~Failed(probe.live.response)
    /\ Len(probe.live.response.json) > 10
    /\ Len(probe.live.data) = 10
    /\ probe.upcoming.called

\* C8: under any interleaving, a list returned with fallback = False shows the
\* complete list of one 200 response (no element missing, none foreign), and a
\* cache hit is served only while the cached timestamp is less than
\* CACHE_DURATION seconds behind the call's current_time.
C8_RaceIsHarmless ==
    \A t \in Threads :
        \A r \in Returns(req[t]) :
            ~r.fallback =>
                /\ SameRecords(r.items, r.full)
                /\ ~r.remote_call =>
                      req[t].current_time - r.cache_after.timestamp < CACHE_DURATION

\* C9: the cached list is, element for element, the list of the latest 200
\* response, the cache holds data only after such a response, and
\* FALLBACK_COMPETITIONS is the list written in the source.
C9_DataImmutable ==
    /\ heap[FallbackObj].items = FALLBACK_COMPETITIONS_LITERAL
    /\ api_cache.data # NoneObj =>
          last_ok.valid /\ heap[api_cache.data].items = last_ok.items

====
